---- MODULE Spec2Model ----
(***************************************************************************)
(* A model of MKVAudioSubsDefaulter: the per-file reconciliation done by   *)
(* MKVAudioSubsDefaulter.process_media_file_tracks (default-track          *)
(* resolution, translation of track ids into mkvpropedit selectors, the    *)
(* strict/lazy missing-track policy, the mkvpropedit call and the outcome  *)
(* counters), a second run of the tool over the file it has edited, and    *)
(* the batch run of main: the inspection pass of get_media_files_info and  *)
(* the reconciliation pass of change_default_tracks over a worker pool.    *)
(***************************************************************************)
EXTENDS Integers, Sequences, FiniteSets, TLC

(***************************************************************************)
(* Bounds of the model.                                                    *)
(***************************************************************************)
MaxAudio == 2        \* audio tracks per container
MaxSubs == 2         \* subtitle tracks per container
MaxRuns == 2         \* runs of the tool over the same file
MaxFiles == 2        \* files found under the library path
MaxPool == 2         \* the largest pool size

(***************************************************************************)
(* Values.                                                                 *)
(***************************************************************************)
None == "None"                       \* Python's None, for an absent code

\* The value of current_default_track_num / new_default_track_num: None, the
\* string "off", or a track number.
NoneNum == [kind |-> "none", n |-> 0]
OffNum == [kind |-> "off", n |-> 0]
Num(n) == [kind |-> "num", n |-> n]

\* The languages the inspected tracks carry.
TrackLanguages == {"eng", "jpn"}

\* language_codes.txt, one "code:Name" line per language, as <<code, Name>>.
get_language_codes ==
    { <<"eng", "English">>, <<"jpn", "Japanese">>, <<"fra", "French">>,
      <<"off", "OFF">> }

\* The codes a user passes: None (type not requested), a code some track may
\* carry, a registered code no track carries, an upper-case spelling of "off",
\* and a code that is not registered.  The command line rejects "off" for audio.
AudioCodes == {None, "eng", "fra"}
SubtitleCodes == {None, "eng", "fra", "OFF", "zzz"}

\* str.lower() on the codes of the model.
LowerCode(code) ==
    CASE code = "OFF" -> "off"
      [] code = "ENG" -> "eng"
      [] OTHER -> code

\* str.lower() on a path, a sequence of characters.
LowerChar(c) ==
    CASE c = "A" -> "a"
      [] c = "M" -> "m"
      [] c = "K" -> "k"
      [] c = "V" -> "v"
      [] OTHER -> c

LowerPath(p) == [i \in 1..Len(p) |-> LowerChar(p[i])]

\* str.endswith(suffix).
EndsWith(p, suffix) ==
    /\ Len(p) >= Len(suffix)
    /\ SubSeq(p, Len(p) - Len(suffix) + 1, Len(p)) = suffix

\* os.path.splitext(p)[1]: from the last dot on, "" when there is none.
SplitExt(p) ==
    LET dots == {i \in 1..Len(p) : p[i] = "."}
    IN IF dots = {} THEN <<>>
       ELSE LET last == CHOOSE i \in dots : \A j \in dots : j <= i
            IN SubSeq(p, last, Len(p))

DotMkv == <<".", "m", "k", "v">>

MediaFiles ==
    { <<"a", ".", "M", "k", "v">>,
      <<"a", ".", "m", "p", "4">> }

Platforms == {"win32", "linux"}
ReturnCodes == {0, 1}

(***************************************************************************)
(* Containers as process_media_file_info returns them: per type the tracks *)
(* in the order of the inspector's output, audio ids first.                *)
(***************************************************************************)
TrackAttrs == [language : TrackLanguages, default : BOOLEAN]

MkTracks(attrs, first) ==
    [i \in 1..Len(attrs) |->
        [id |-> first + i - 1, language |-> attrs[i].language,
         default |-> attrs[i].default]]

Containers ==
    UNION { UNION { { [audio |-> MkTracks(a, 0),
                       subtitles |-> MkTracks(s, na)] :
                         a \in [1..na -> TrackAttrs], s \in [1..ns -> TrackAttrs] } :
                    ns \in 0..MaxSubs } :
            na \in 0..MaxAudio }

VARIABLES
    default_method,       \* self.default_method
    dry_run,              \* self.dry_run
    audio_lang_code,      \* self.audio_lang_code
    subtitle_lang_code,   \* self.subtitle_lang_code
    media_file,           \* the path of the file
    container,            \* the tracks of the file on disk
    tracks_info,          \* the tracks as inspected, handed to the handler
    pc,                   \* "pending", "returned", "raised"
    counts,               \* the tuple process_media_file_tracks returns
    mkv_cmds,             \* the edit set built by the handler
    no_changes,           \* the handler's abort flag
    editor,               \* the mkvpropedit call of this run
    run,                  \* the number of this run over the file
    prev,                 \* what the previous run returned and was given
    pool_size,            \* self.pool_size
    file_extensions,      \* self.file_extensions
    platform,             \* sys.platform
    library,              \* the files under self.file_or_library_path
    media_file_paths,     \* the list get_media_files_info collects
    phase,                \* main's position: "start", "inspect", "reconcile", "done"
    raised,               \* the exception that ended main, "" for none
    info_tasks,           \* the tasks of pool.imap(process_media_file_info, ...)
    tracks_tasks,         \* the tasks of pool.imap(process_media_file_tracks, ...)
    consumed,             \* results of the running pass the parent has taken
    media_info,           \* the dictionary get_media_files_info returns
    totals                \* the counters and media_file_types of change_default_tracks

\* The state of one call of process_media_file_tracks and of its reruns.
filevars == <<media_file, container, tracks_info, pc, counts, mkv_cmds,
              no_changes, editor, run, prev>>

\* The state of a batch run of main.
batchvars == <<pool_size, file_extensions, platform, library, media_file_paths,
               phase, raised, info_tasks, tracks_tasks, consumed, media_info,
               totals>>

vars == <<default_method, dry_run, audio_lang_code, subtitle_lang_code,
          filevars, batchvars>>

(***************************************************************************)
(* verify_language_code: TRUE when the code is the first field of a line   *)
(* of language_codes.txt; the code raises Exception otherwise.             *)
(***************************************************************************)
verify_language_code(lang_code) ==
    lang_code \in { line[1] : line \in get_language_codes }

(***************************************************************************)
(* The edit set.  One element stands for the four arguments                *)
(*   --edit track:<letter><num> --set flag-default=<flag>                  *)
(* and remembers in gid the track id its number was computed from.         *)
(***************************************************************************)
Letter(track_type) == IF track_type = "audio" THEN "a" ELSE "s"

\* Lines 296-308: the command that clears the current default, staged while
\* the tracks are scanned.
ScanClearCmd(track_type, current, info) ==
    [letter |-> Letter(track_type),
     num |-> IF track_type = "subtitles"
             THEN current - Len(info.audio)
             ELSE current,
     flag |-> 0,
     gid |-> current]

\* StrictOffCmd with the global id left untranslated.
StrictOffCmdGlobalId(track_type, current, info) ==
    [letter |-> Letter(track_type), num |-> current, flag |-> 0, gid |-> current]

\* Lines 341-351: strict policy, code "off", a default exists.
StrictOffCmd(track_type, current, info) ==
    [letter |-> Letter(track_type),
     num |-> current - (IF track_type = "subtitles" THEN Len(info.audio) ELSE 0),
     flag |-> 0,
     gid |-> current]

\* SetDefaultCmd with the flag always 1.
SetDefaultCmdAlwaysSets(track_type, target, flag, info) ==
    [letter |-> Letter(track_type),
     num |-> target - (IF track_type = "subtitles" THEN Len(info.audio) ELSE 0),
     flag |-> 1,
     gid |-> target]

\* Lines 366-384: the command that sets the new default (or, for "off",
\* clears the current one).
SetDefaultCmd(track_type, target, flag, info) ==
    [letter |-> Letter(track_type),
     num |-> target - (IF track_type = "subtitles" THEN Len(info.audio) ELSE 0),
     flag |-> flag,
     gid |-> target]

(***************************************************************************)
(* Lines 292-317: one iteration of the scan over the tracks of a type.     *)
(* st holds current_default_track_num, new_default_track_num and mkv_cmds. *)
(***************************************************************************)
ScanStep(st, track, track_type, code, info) ==
    LET clears == track.default /\ code \notin {track.language, "off"}
        current ==
            IF track.default THEN Num(track.id)
            ELSE IF track_type = "subtitles" /\ st.current = NoneNum THEN OffNum
            ELSE st.current
        \* track_num is overwritten by the relative number when a clear is staged
        track_num ==
            IF clears THEN ScanClearCmd(track_type, track.id, info).num
            ELSE track.id
        new ==
            IF track.language = code THEN Num(track_num)
            ELSE IF current = OffNum /\ code = "off" THEN OffNum
            ELSE st.new
    IN [current |-> current,
        new |-> new,
        cmds |-> IF clears
                 THEN Append(st.cmds, ScanClearCmd(track_type, track.id, info))
                 ELSE st.cmds]

ScanLoop(track_type, code, info, cmds) ==
    LET tracks == info[track_type]
        F[i \in 0..Len(tracks)] ==
            IF i = 0
            THEN [current |-> NoneNum, new |-> NoneNum, cmds |-> cmds]
            ELSE ScanStep(F[i - 1], tracks[i], track_type, code, info)
    IN F[Len(tracks)]

(***************************************************************************)
(* Lines 319-384: what one requested type adds once its tracks are         *)
(* scanned.  acc holds mkv_cmds, miss_track_count, no_changes and the      *)
(* exception raised so far ("" for none).                                  *)
(***************************************************************************)
\* StrictAbort that counts the missing track but keeps the edit set alive.
StrictAbortKeepsEdits(staged) == [staged EXCEPT !.miss = @ + 1]

\* Lines 332-336: strict policy, the requested track does not exist.
StrictAbort(staged) ==
    [staged EXCEPT !.miss = @ + 1, !.no_changes = TRUE]

\* LazySkip that aborts the file as strict does.
LazySkipAborts(staged) == [staged EXCEPT !.no_changes = TRUE]

\* LazySkip that counts the file as missing a track, as strict does.
LazySkipCountsMissing(staged) ==
    [staged EXCEPT !.miss = @ + 1, !.no_changes = TRUE]

\* Lines 352-356: lazy policy, the requested track does not exist.
LazySkip(staged) == staged

\* AlreadyDefault that never finds the request satisfied.
AlreadyDefaultNever(current, new) == FALSE

\* AlreadyDefault that recognises only "off" as already satisfied.
AlreadyDefaultOffOnly(current, new) == current = new /\ new = OffNum

\* Line 357: the requested track is the current default.
AlreadyDefault(current, new) == current = new

\* Lines 320-324: subtitles are to be turned off and the file has none.
NoSubtitlesOff(track_type, code, info) ==
    track_type = "subtitles" /\ Len(info[track_type]) = 0 /\ code = "off"

\* StrictMissing that treats every unresolved type as missing.
StrictMissingAlways(code, current) == TRUE

\* Line 331: the requested track is missing, unless the code is "off" and
\* the scan has seen a track of the type.
StrictMissing(code, current) == code # "off" \/ current = NoneNum

ClassifyType(acc, st, track_type, code, info, method) ==
    LET staged == [acc EXCEPT !.cmds = st.cmds]
    IN IF NoSubtitlesOff(track_type, code, info)
       THEN staged
       ELSE IF st.new = NoneNum
       THEN IF method = "strict"
            THEN IF StrictMissing(code, st.current)
                 THEN StrictAbort(staged)
                 ELSE IF st.current.kind # "num"
                 THEN [staged EXCEPT !.raised = "TypeError"]
                 ELSE [staged EXCEPT !.cmds =
                          Append(@, StrictOffCmd(track_type, st.current.n, info))]
            ELSE IF method = "lazy"
            THEN LazySkip(staged)
            ELSE staged
       ELSE IF AlreadyDefault(st.current, st.new)
       THEN staged
       ELSE LET flag == IF st.new = OffNum THEN 0 ELSE 1
                target == IF st.new = OffNum THEN st.current ELSE st.new
            IN IF target.kind # "num"
               THEN [staged EXCEPT !.raised = "TypeError"]
               ELSE [staged EXCEPT !.cmds =
                        Append(@, SetDefaultCmd(track_type, target.n, flag, info))]

\* Lines 285-384: the body of the loop for one (code, track_type) pair.
ResolveType(acc, lang_code, track_type, info, method) ==
    LET code == IF lang_code # None THEN LowerCode(lang_code) ELSE lang_code
    IN IF acc.raised # "" \/ code = None
       THEN acc
       ELSE IF ~verify_language_code(code)
       THEN [acc EXCEPT !.raised = "Exception"]
       ELSE ClassifyType(acc, ScanLoop(track_type, code, info, acc.cmds),
                         track_type, code, info, method)

\* Resolution that goes through the subtitles before the audio.
ResolutionSubtitlesFirst(info, audio_code, subtitle_code, method) ==
    LET start == [cmds |-> <<>>, miss |-> 0, no_changes |-> FALSE, raised |-> ""]
        subtitles == ResolveType(start, subtitle_code, "subtitles", info, method)
    IN ResolveType(subtitles, audio_code, "audio", info, method)

\* Lines 278-384: the loop over audio, then subtitles.
Resolution(info, audio_code, subtitle_code, method) ==
    LET start == [cmds |-> <<>>, miss |-> 0, no_changes |-> FALSE, raised |-> ""]
        audio == ResolveType(start, audio_code, "audio", info, method)
    IN ResolveType(audio, subtitle_code, "subtitles", info, method)

(***************************************************************************)
(* The Container Editor (mkvpropedit): it sets the default flag of the     *)
(* track each selector addresses, the n-th audio track counted from the    *)
(* first audio id, the n-th subtitle track counted from the id after the   *)
(* last audio track.                                                       *)
(***************************************************************************)
ApplyCmd(c, cmd) ==
    LET track_type == IF cmd.letter = "a" THEN "audio" ELSE "subtitles"
        id == cmd.num + (IF cmd.letter = "s" THEN Len(c.audio) ELSE 0)
    IN [c EXCEPT ![track_type] =
           [i \in 1..Len(@) |->
               IF @[i].id = id THEN [@[i] EXCEPT !.default = (cmd.flag = 1)]
               ELSE @[i]]]

ApplyCmds(c, cmds) ==
    LET F[i \in 0..Len(cmds)] ==
            IF i = 0 THEN c ELSE ApplyCmd(F[i - 1], cmds[i])
    IN F[Len(cmds)]

(***************************************************************************)
(* The state.                                                              *)
(***************************************************************************)
ZeroCounts ==
    [ext |-> <<>>, ext_count |-> 0, successful |-> 0, estimated |-> 0,
     unchanged |-> 0, missing |-> 0, invalid |-> 0, failed |-> 0]

NoEditor == [calls |-> 0, platform |-> "", returncode |-> 0]

NoPrev == [ran |-> FALSE, counts |-> ZeroCounts,
           tracks_info |-> [audio |-> <<>>, subtitles |-> <<>>]]

\* The batch variables while a single call is studied: no batch is run.
NoBatch ==
    /\ pool_size = 1
    /\ file_extensions = <<DotMkv>>
    /\ platform = ""
    /\ library = <<>>
    /\ media_file_paths = <<>>
    /\ phase = "idle"
    /\ raised = ""
    /\ info_tasks = <<>>
    /\ tracks_tasks = <<>>
    /\ consumed = 0
    /\ media_info = <<>>
    /\ totals = [media_file_types |-> <<>>, counts |-> ZeroCounts]

Init ==
    /\ default_method \in {"strict", "lazy"}
    /\ dry_run \in BOOLEAN
    /\ audio_lang_code \in AudioCodes
    /\ subtitle_lang_code \in SubtitleCodes
    /\ media_file \in MediaFiles
    /\ container \in Containers
    /\ tracks_info = container
    /\ pc = "pending"
    /\ counts = ZeroCounts
    /\ mkv_cmds = <<>>
    /\ no_changes = FALSE
    /\ editor = NoEditor
    /\ run = 1
    /\ prev = NoPrev
    /\ NoBatch

\* IsMatroskaFile that accepts every path.
IsMatroskaFileAnyExt(path) == TRUE

\* Line 274: the lower-cased path ends in ".mkv".
IsMatroskaFile(path) == EndsWith(LowerPath(path), DotMkv)

\* StagedToApply that applies the edit set of an aborted file too.
StagedToApplyIgnoresAbort(cmds, aborted) == cmds # <<>>

\* Line 386: there is an edit set and the file was not aborted.
StagedToApply(cmds, aborted) == cmds # <<>> /\ ~aborted

\* InvokesEditor that ignores the dry-run flag.
InvokesEditorAlways(dry) == TRUE

\* Line 400: mkvpropedit is run unless this is a dry run.
InvokesEditor(dry) == ~dry

\* Lines 402-407: off Windows the editor is run by subprocess.run with
\* check=True, which raises CalledProcessError on a non-zero exit status.
EditorRaises(sys_platform, returncode) == sys_platform # "win32" /\ returncode # 0

\* Line 409.
EditorFailed(returncode) == returncode # 0

\* Lines 435-443: the returned tuple.
Returned(ext, field, n) ==
    [[ZeroCounts EXCEPT !.ext = ext, !.ext_count = 1] EXCEPT ![field] = n]

(***************************************************************************)
(* process_media_file_tracks, lines 255-443: what one call does with the   *)
(* pair (path, info) under the given settings, when mkvpropedit, if it is  *)
(* run, exits with returncode.  pc is "returned" with the tuple in counts, *)
(* or "raised" with the exception in exc; editor records the mkvpropedit   *)
(* call.                                                                   *)
(***************************************************************************)
\* Lines 272-277 and 386-443: the extension test and, for a .mkv file whose
\* resolution (lines 278-384) gave r, the editor call and the tuple.
TracksOutcome(path, r, dry, sys_platform, returncode) ==
    LET media_file_ext == SplitExt(LowerPath(path))
        called == [calls |-> 1, platform |-> sys_platform,
                   returncode |-> returncode]
        done(field, n, cmds, aborted, ed) ==
            [pc |-> "returned", exc |-> "",
             counts |-> Returned(media_file_ext, field, n),
             mkv_cmds |-> cmds, no_changes |-> aborted, editor |-> ed]
    IN IF ~IsMatroskaFile(path)
       THEN done("invalid", 1, <<>>, FALSE, NoEditor)
       ELSE IF r.raised # ""
       THEN [pc |-> "raised", exc |-> r.raised, counts |-> ZeroCounts,
             mkv_cmds |-> r.cmds, no_changes |-> r.no_changes,
             editor |-> NoEditor]
       ELSE IF StagedToApply(r.cmds, r.no_changes)
       THEN IF InvokesEditor(dry)
            THEN IF EditorRaises(sys_platform, returncode)
                 THEN [pc |-> "raised", exc |-> "CalledProcessError",
                       counts |-> ZeroCounts, mkv_cmds |-> r.cmds,
                       no_changes |-> r.no_changes, editor |-> called]
                 ELSE IF EditorFailed(returncode)
                 THEN done("failed", 1, r.cmds, r.no_changes, called)
                 ELSE done("successful", 1, r.cmds, r.no_changes, called)
            ELSE done("estimated", 1, r.cmds, r.no_changes, NoEditor)
       ELSE IF r.no_changes
       THEN done("missing", r.miss, r.cmds, r.no_changes, NoEditor)
       ELSE done("unchanged", 1, r.cmds, r.no_changes, NoEditor)

process_media_file_tracks(path, info, audio_code, subtitle_code, method, dry, sys_platform, returncode) ==
    TracksOutcome(path, Resolution(info, audio_code, subtitle_code, method),
                  dry, sys_platform, returncode)

\* The file after the call: mkvpropedit has applied the edit set when it was
\* run and exited with status 0.
FileAfter(c, res) ==
    IF res.pc = "returned" /\ res.counts.successful = 1
    THEN ApplyCmds(c, res.mkv_cmds)
    ELSE c

(***************************************************************************)
(* process_media_file_tracks, lines 255-443, for the file of this run; the *)
(* platform and the exit status of mkvpropedit are drawn at the editor     *)
(* call.                                                                   *)
(***************************************************************************)
ProcessMediaFileTracks ==
    /\ pc = "pending"
    /\ LET media_file_ext == SplitExt(LowerPath(media_file))
           r == Resolution(tracks_info, audio_lang_code, subtitle_lang_code,
                           default_method)
       IN IF ~IsMatroskaFile(media_file)
          THEN /\ pc' = "returned"
               /\ counts' = Returned(media_file_ext, "invalid", 1)
               /\ UNCHANGED <<mkv_cmds, no_changes, editor, container>>
          ELSE IF r.raised # ""
          THEN /\ pc' = "raised"
               /\ mkv_cmds' = r.cmds
               /\ no_changes' = r.no_changes
               /\ UNCHANGED <<counts, editor, container>>
          ELSE /\ mkv_cmds' = r.cmds
               /\ no_changes' = r.no_changes
               /\ IF StagedToApply(r.cmds, r.no_changes)
                  THEN IF InvokesEditor(dry_run)
                       THEN \E sys_platform \in Platforms, returncode \in ReturnCodes :
                              /\ editor' = [calls |-> 1, platform |-> sys_platform,
                                            returncode |-> returncode]
                              /\ IF EditorRaises(sys_platform, returncode)
                                 THEN
                                      /\ pc' = "raised"
                                      /\ UNCHANGED <<counts, container>>
                                 ELSE IF EditorFailed(returncode)
                                 THEN /\ pc' = "returned"
                                      /\ counts' = Returned(media_file_ext, "failed", 1)
                                      /\ UNCHANGED container
                                 ELSE /\ pc' = "returned"
                                      /\ counts' = Returned(media_file_ext, "successful", 1)
                                      /\ container' = ApplyCmds(container, r.cmds)
                       ELSE /\ pc' = "returned"
                            /\ counts' = Returned(media_file_ext, "estimated", 1)
                            /\ UNCHANGED <<editor, container>>
                  ELSE IF r.no_changes
                  THEN /\ pc' = "returned"
                       /\ counts' = Returned(media_file_ext, "missing", r.miss)
                       /\ UNCHANGED <<editor, container>>
                  ELSE /\ pc' = "returned"
                       /\ counts' = Returned(media_file_ext, "unchanged", 1)
                       /\ UNCHANGED <<editor, container>>
    /\ UNCHANGED <<default_method, dry_run, audio_lang_code, subtitle_lang_code,
                   media_file, tracks_info, run, prev, batchvars>>

(***************************************************************************)
(* The tool is run again, with the same arguments, over a file it has      *)
(* edited: the file is inspected anew (process_media_file_info) and handed *)
(* to process_media_file_tracks.                                           *)
(***************************************************************************)
Rerun ==
    /\ pc = "returned"
    /\ counts.successful = 1
    /\ run < MaxRuns
    /\ run' = run + 1
    /\ prev' = [ran |-> TRUE, counts |-> counts, tracks_info |-> tracks_info]
    /\ tracks_info' = container
    /\ pc' = "pending"
    /\ counts' = ZeroCounts
    /\ mkv_cmds' = <<>>
    /\ no_changes' = FALSE
    /\ editor' = NoEditor
    /\ UNCHANGED <<default_method, dry_run, audio_lang_code, subtitle_lang_code,
                   media_file, container, batchvars>>

Next == ProcessMediaFileTracks \/ Rerun

Spec == Init /\ [][Next]_vars

(***************************************************************************)
(* One call of process_media_file_tracks on a .mkv file with the codes of  *)
(* the languages the tracks carry, for audio and for subtitles alike.      *)
(***************************************************************************)
TrackAudioCodes == {None} \cup TrackLanguages
TrackSubtitleCodes == {None, "OFF"} \cup TrackLanguages

TracksInit ==
    /\ default_method \in {"strict", "lazy"}
    /\ dry_run \in BOOLEAN
    /\ audio_lang_code \in TrackAudioCodes
    /\ subtitle_lang_code \in TrackSubtitleCodes
    /\ media_file \in {f \in MediaFiles : IsMatroskaFile(f)}
    /\ container \in Containers
    /\ tracks_info = container
    /\ pc = "pending"
    /\ counts = ZeroCounts
    /\ mkv_cmds = <<>>
    /\ no_changes = FALSE
    /\ editor = NoEditor
    /\ run = 1
    /\ prev = NoPrev
    /\ NoBatch

TracksNext == ProcessMediaFileTracks

TracksSpec == TracksInit /\ [][TracksNext]_vars

(***************************************************************************)
(* The batch run of main, lines 737-738:                                   *)
(*   mkv.change_default_tracks(mkv.get_media_files_info())                 *)
(* Both passes hand their files to a multiprocessing.Pool of pool_size     *)
(* workers through pool.imap: the workers take the tasks in order, one     *)
(* task per worker at a time, and the parent takes the results in order;   *)
(* a task that raised re-raises in the parent when its result is taken.    *)
(***************************************************************************)
DotMp4 == <<".", "m", "p", "4">>
DotMKV == <<".", "M", "K", "V">>

\* The names of the files of the library, in the order os.walk lists them.
FileNames == <<"a", "b", "c", "d">>

\* -ext/--file-extensions: the default tuple and a comma separated list.
FileExtensionTuples == { <<DotMkv>>, <<DotMkv, DotMKV, DotMp4>> }

\* The containers of the files of the library: one whose default audio
\* track is Japanese with an English track after it, one whose only audio
\* track is English and default.
JpnEngContainer ==
    [audio |-> MkTracks(<<[language |-> "jpn", default |-> TRUE],
                          [language |-> "eng", default |-> FALSE]>>, 0),
     subtitles |-> MkTracks(<<[language |-> "eng", default |-> TRUE]>>, 2)]

EngContainer ==
    [audio |-> MkTracks(<<[language |-> "eng", default |-> TRUE]>>, 0),
     subtitles |-> <<>>]

\* The files of the library: the extension and the container of each.
FileKinds ==
    { [ext |-> DotMkv, container |-> JpnEngContainer],
      [ext |-> DotMkv, container |-> EngContainer],
      [ext |-> DotMKV, container |-> JpnEngContainer],
      [ext |-> DotMp4, container |-> EngContainer] }

\* The codes of a batch run: a language some files have, one none has, no
\* subtitle request and a subtitle code that is not registered.
BatchAudioCodes == {"eng", "fra"}
BatchSubtitleCodes == {None, "zzz"}

\* -plsz/--pool-size.
PoolSizes == 1..MaxPool

Libraries ==
    UNION { { [i \in 1..n |-> [path |-> <<FileNames[i]>> \o k[i].ext,
                               container |-> k[i].container]] :
                k \in [1..n -> FileKinds] } :
            n \in 0..MaxFiles }

\* What mkvmerge -J gives back: its exit status and whether its output
\* parses as JSON.
InspectorOutputs ==
    { [returncode |-> 0, json |-> TRUE],
      [returncode |-> 0, json |-> FALSE],
      [returncode |-> 1, json |-> TRUE] }

EmptyInfo == [audio |-> <<>>, subtitles |-> <<>>]

\* media_file_types before the first file is counted.
EmptyTypes == [e \in {} |-> 0]

ZeroTotals == [media_file_types |-> EmptyTypes, counts |-> ZeroCounts]

\* A task of pool.imap: "queued", "running" in a worker, or "done".
\* out is what mkvmerge gave back for the file, NoOutput before it has run.
NoOutput == [returncode |-> -1, json |-> FALSE]

QueuedInfoTask ==
    [st |-> "queued", out |-> NoOutput, exc |-> "", tracks_info |-> EmptyInfo]

QueuedTracksTask ==
    [st |-> "queued",
     res |-> [pc |-> "pending", exc |-> "", counts |-> ZeroCounts,
              mkv_cmds |-> <<>>, no_changes |-> FALSE, editor |-> NoEditor]]

\* The per-call variables while a batch is studied.
NoFile ==
    /\ media_file = <<>>
    /\ container = EmptyInfo
    /\ tracks_info = EmptyInfo
    /\ pc = "idle"
    /\ counts = ZeroCounts
    /\ mkv_cmds = <<>>
    /\ no_changes = FALSE
    /\ editor = NoEditor
    /\ run = 1
    /\ prev = NoPrev

BatchInit ==
    /\ default_method \in {"strict", "lazy"}
    /\ dry_run \in BOOLEAN
    /\ audio_lang_code \in BatchAudioCodes
    /\ subtitle_lang_code \in BatchSubtitleCodes
    /\ pool_size \in PoolSizes
    /\ file_extensions \in FileExtensionTuples
    /\ platform \in Platforms
    /\ library \in Libraries
    /\ media_file_paths = <<>>
    /\ phase = "start"
    /\ raised = ""
    /\ info_tasks = <<>>
    /\ tracks_tasks = <<>>
    /\ consumed = 0
    /\ media_info = <<>>
    /\ totals = ZeroTotals
    /\ NoFile

\* Lines 224 and 229: name.endswith(self.file_extensions), a tuple of
\* suffixes compared as they are spelled.
HasFileExtension(path, extensions) ==
    \E k \in 1..Len(extensions) : EndsWith(path, extensions[k])

\* Lines 215-230: the paths collected from the library.
CollectPaths(files, extensions) ==
    LET F[i \in 0..Len(files)] ==
            IF i = 0 THEN <<>>
            ELSE IF HasFileExtension(files[i].path, extensions)
                 THEN Append(F[i - 1], files[i].path)
                 ELSE F[i - 1]
    IN F[Len(files)]

\* The file of the library with this path.
FileIndex(path) == CHOOSE i \in 1..Len(library) : library[i].path = path

\* The tasks a pool is working on.
Running(tasks) == {i \in 1..Len(tasks) : tasks[i].st = "running"}

\* The task the next free worker takes: the first one still queued.
NextQueued(tasks) ==
    {i \in 1..Len(tasks) :
        /\ tasks[i].st = "queued"
        /\ \A j \in 1..(i - 1) : tasks[j].st # "queued"}

\* FreeWorker that never finds a worker.
FreeWorkerNever(tasks, size) == FALSE

\* FreeWorker that finds a worker whatever the pool is doing.
FreeWorkerAlways(tasks, size) == TRUE

\* Lines 240 and 455, Pool(processes=self.pool_size): a worker is free.
FreeWorker(tasks, size) == Cardinality(Running(tasks)) < size

(***************************************************************************)
(* process_media_file_info, lines 170-212: the result for a file whose     *)
(* tracks are c when mkvmerge gives back out.  Off Windows check=True      *)
(* raises on a non-zero exit status; json.loads raises on output that does *)
(* not parse; a non-zero exit status on Windows raises Exception.          *)
(***************************************************************************)
\* process_media_file_info that returns the tracks whatever mkvmerge gave back.
process_media_file_info_lenient(c, sys_platform, out) ==
    [st |-> "done", out |-> out, exc |-> "", tracks_info |-> c]

process_media_file_info(c, sys_platform, out) ==
    LET raise(exc) ==
            [st |-> "done", out |-> out, exc |-> exc, tracks_info |-> EmptyInfo]
    IN IF sys_platform # "win32" /\ out.returncode # 0
       THEN raise("CalledProcessError")
       ELSE IF out.returncode = 0
       THEN IF out.json
            THEN [st |-> "done", out |-> out, exc |-> "", tracks_info |-> c]
            ELSE raise("JSONDecodeError")
       ELSE raise("Exception")

\* ReadyResult that takes the next result as soon as any later one is there.
ReadyResultAnyOrder(tasks, taken) ==
    /\ taken < Len(tasks)
    /\ \E i \in (taken + 1)..Len(tasks) : tasks[i].st = "done"

\* Lines 243 and 457, pool.imap: the iterator yields the results in the
\* order of the tasks, so the next one is there when task taken + 1 is done.
ReadyResult(tasks, taken) ==
    /\ taken < Len(tasks)
    /\ tasks[taken + 1].st = "done"

\* AllResultsTaken that lets the pass end at any moment.
AllResultsTakenAnytime(tasks, taken) == TRUE

\* Lines 241-248 and 456-461: the iterator is exhausted, every result of
\* the pass has been taken.
AllResultsTaken(tasks, taken) == taken = Len(tasks)

\* Lines 214-240: get_media_files_info collects the paths and opens the pool.
GetMediaFilesInfo ==
    /\ phase = "start"
    /\ raised = ""
    /\ media_file_paths' = CollectPaths(library, file_extensions)
    /\ info_tasks' = [i \in 1..Len(media_file_paths') |-> QueuedInfoTask]
    /\ phase' = "inspect"
    /\ consumed' = 0
    /\ UNCHANGED <<default_method, dry_run, audio_lang_code, subtitle_lang_code,
                   filevars, pool_size, file_extensions, platform, library,
                   raised, tracks_tasks, media_info, totals>>

\* Line 243: a free worker takes the next path.
InfoTaskStart ==
    /\ phase = "inspect"
    /\ raised = ""
    /\ FreeWorker(info_tasks, pool_size)
    /\ \E i \in NextQueued(info_tasks) :
          info_tasks' = [info_tasks EXCEPT ![i].st = "running"]
    /\ UNCHANGED <<default_method, dry_run, audio_lang_code, subtitle_lang_code,
                   filevars, pool_size, file_extensions, platform, library,
                   media_file_paths, phase, raised, tracks_tasks, consumed,
                   media_info, totals>>

\* Lines 170-212 in a worker: mkvmerge is run on the file and its output read.
ProcessMediaFileInfo ==
    /\ phase = "inspect"
    /\ raised = ""
    /\ \E i \in Running(info_tasks), out \in InspectorOutputs :
          info_tasks' =
              [info_tasks EXCEPT ![i] =
                  process_media_file_info(
                      library[FileIndex(media_file_paths[i])].container,
                      platform, out)]
    /\ UNCHANGED <<default_method, dry_run, audio_lang_code, subtitle_lang_code,
                   filevars, pool_size, file_extensions, platform, library,
                   media_file_paths, phase, raised, tracks_tasks, consumed,
                   media_info, totals>>

\* Lines 241-248: list() takes the next result of imap; the exception of a
\* task that raised leaves get_media_files_info and main.
InfoResultNext ==
    /\ phase = "inspect"
    /\ raised = ""
    /\ ReadyResult(info_tasks, consumed)
    /\ IF info_tasks[consumed + 1].exc # ""
       THEN /\ raised' = info_tasks[consumed + 1].exc
            /\ UNCHANGED consumed
       ELSE /\ consumed' = consumed + 1
            /\ UNCHANGED raised
    /\ UNCHANGED <<default_method, dry_run, audio_lang_code, subtitle_lang_code,
                   filevars, pool_size, file_extensions, platform, library,
                   media_file_paths, phase, info_tasks, tracks_tasks,
                   media_info, totals>>

\* Lines 250-253 and 445-455: media_info is built from the results and
\* handed to change_default_tracks, which zeroes its counters and opens its
\* pool.
ChangeDefaultTracks ==
    /\ phase = "inspect"
    /\ raised = ""
    /\ AllResultsTaken(info_tasks, consumed)
    /\ media_info' = [i \in 1..Len(info_tasks) |->
                         <<media_file_paths[i], info_tasks[i].tracks_info>>]
    /\ tracks_tasks' = [i \in 1..Len(info_tasks) |-> QueuedTracksTask]
    /\ totals' = ZeroTotals
    /\ consumed' = 0
    /\ phase' = "reconcile"
    /\ UNCHANGED <<default_method, dry_run, audio_lang_code, subtitle_lang_code,
                   filevars, pool_size, file_extensions, platform, library,
                   media_file_paths, raised, info_tasks>>

\* Line 457: a free worker takes the next item of media_files_info.
TracksTaskStart ==
    /\ phase = "reconcile"
    /\ raised = ""
    /\ FreeWorker(tracks_tasks, pool_size)
    /\ \E i \in NextQueued(tracks_tasks) :
          tracks_tasks' = [tracks_tasks EXCEPT ![i].st = "running"]
    /\ UNCHANGED <<default_method, dry_run, audio_lang_code, subtitle_lang_code,
                   filevars, pool_size, file_extensions, platform, library,
                   media_file_paths, phase, raised, info_tasks, consumed,
                   media_info, totals>>

\* Lines 255-443 in a worker: process_media_file_tracks on one item, and the
\* file as mkvpropedit leaves it.
ProcessMediaFileTracksTask ==
    /\ phase = "reconcile"
    /\ raised = ""
    /\ \E i \in Running(tracks_tasks), returncode \in ReturnCodes :
          LET res == process_media_file_tracks(
                         media_info[i][1], media_info[i][2], audio_lang_code,
                         subtitle_lang_code, default_method, dry_run,
                         platform, returncode)
              k == FileIndex(media_info[i][1])
          IN /\ tracks_tasks' = [tracks_tasks EXCEPT ![i] =
                                    [st |-> "done", res |-> res]]
             /\ library' = [library EXCEPT ![k].container = FileAfter(@, res)]
    /\ UNCHANGED <<default_method, dry_run, audio_lang_code, subtitle_lang_code,
                   filevars, pool_size, file_extensions, platform,
                   media_file_paths, phase, raised, info_tasks, consumed,
                   media_info, totals>>

\* AddCounts that keeps in media_file_types only the first extension it sees.
AddCountsKeepsFirstExt(sums, c) ==
    LET types == sums.media_file_types
        exts == IF DOMAIN types = {} THEN {c.ext} ELSE DOMAIN types
    IN [media_file_types |->
           [e \in exts |->
               (IF e \in DOMAIN types THEN types[e] ELSE 0)
               + (IF e = c.ext THEN c.ext_count ELSE 0)],
        counts |->
           [f \in DOMAIN sums.counts |->
               IF f \in {"ext", "ext_count"} THEN sums.counts[f]
               ELSE sums.counts[f] + c[f]]]

\* AddCounts that leaves the files classified invalid out of media_file_types.
AddCountsValidOnly(sums, c) ==
    LET types == sums.media_file_types
        n == IF c.invalid = 0 THEN c.ext_count ELSE 0
    IN [media_file_types |->
           [e \in DOMAIN types \cup {c.ext} |->
               (IF e \in DOMAIN types THEN types[e] ELSE 0)
               + (IF e = c.ext THEN n ELSE 0)],
        counts |->
           [f \in DOMAIN sums.counts |->
               IF f \in {"ext", "ext_count"} THEN sums.counts[f]
               ELSE sums.counts[f] + c[f]]]

\* Lines 462-471: the tuple of one file is added to media_file_types and to
\* the six counters.
AddCounts(sums, c) ==
    LET types == sums.media_file_types
    IN [media_file_types |->
           [e \in DOMAIN types \cup {c.ext} |->
               (IF e \in DOMAIN types THEN types[e] ELSE 0)
               + (IF e = c.ext THEN c.ext_count ELSE 0)],
        counts |->
           [f \in DOMAIN sums.counts |->
               IF f \in {"ext", "ext_count"} THEN sums.counts[f]
               ELSE sums.counts[f] + c[f]]]

\* Lines 456-471: the loop takes the next tuple of imap and adds it up; the
\* exception of a task that raised leaves change_default_tracks and main.
TracksResultNext ==
    /\ phase = "reconcile"
    /\ raised = ""
    /\ ReadyResult(tracks_tasks, consumed)
    /\ IF tracks_tasks[consumed + 1].res.pc = "raised"
       THEN /\ raised' = tracks_tasks[consumed + 1].res.exc
            /\ UNCHANGED <<consumed, totals>>
       ELSE /\ consumed' = consumed + 1
            /\ totals' = AddCounts(totals, tracks_tasks[consumed + 1].res.counts)
            /\ UNCHANGED raised
    /\ UNCHANGED <<default_method, dry_run, audio_lang_code, subtitle_lang_code,
                   filevars, pool_size, file_extensions, platform, library,
                   media_file_paths, phase, info_tasks, tracks_tasks,
                   media_info>>

\* Lines 473 on: every tuple is added up, the summary is printed and
\* change_default_tracks returns.
ChangeDefaultTracksReturn ==
    /\ phase = "reconcile"
    /\ raised = ""
    /\ AllResultsTaken(tracks_tasks, consumed)
    /\ phase' = "done"
    /\ UNCHANGED <<default_method, dry_run, audio_lang_code, subtitle_lang_code,
                   filevars, pool_size, file_extensions, platform, library,
                   media_file_paths, raised, info_tasks, tracks_tasks,
                   consumed, media_info, totals>>

BatchNext ==
    \/ GetMediaFilesInfo
    \/ InfoTaskStart
    \/ ProcessMediaFileInfo
    \/ InfoResultNext
    \/ ChangeDefaultTracks
    \/ TracksTaskStart
    \/ ProcessMediaFileTracksTask
    \/ TracksResultNext
    \/ ChangeDefaultTracksReturn

BatchSpec == BatchInit /\ [][BatchNext]_vars

\* The runs whose termination is studied: strict policy, edits applied, the
\* three extensions accepted, English audio requested, over libraries of
\* .mkv files that need an edit and .mp4 files; the number of files, the
\* pool size, the platform and the subtitle code (none, or one that raises)
\* vary.
FairBatchInit ==
    /\ BatchInit
    /\ default_method = "strict"
    /\ ~dry_run
    /\ audio_lang_code = "eng"
    /\ file_extensions = <<DotMkv, DotMKV, DotMp4>>
    /\ \A k \in DOMAIN library :
          \/ /\ EndsWith(library[k].path, DotMkv)
             /\ library[k].container = JpnEngContainer
          \/ EndsWith(library[k].path, DotMp4)

\* The workers and the parent are processes the operating system keeps
\* running: a step that stays possible is eventually taken.
FairBatchSpec == FairBatchInit /\ [][BatchNext]_vars /\ WF_vars(BatchNext)

(***************************************************************************)
(* Vocabulary of the properties.                                           *)
(***************************************************************************)
TrackTypes == {"audio", "subtitles"}

\* The code requested for a type, lower-cased as the handler compares it.
Requested(track_type) ==
    LET lang_code == IF track_type = "audio" THEN audio_lang_code
                     ELSE subtitle_lang_code
    IN IF lang_code = None THEN None ELSE LowerCode(lang_code)

\* The type is requested with a registered language (not "off").
RequestsLanguage(track_type) ==
    /\ Requested(track_type) \notin {None, "off"}
    /\ verify_language_code(Requested(track_type))

HasLanguage(tracks, code) == \E i \in 1..Len(tracks) : tracks[i].language = code

DefaultTracks(tracks) == {i \in 1..Len(tracks) : tracks[i].default}

AtMostOneDefault(info) ==
    \A t \in TrackTypes : Cardinality(DefaultTracks(info[t])) <= 1

IsMkv == EndsWith(LowerPath(media_file), DotMkv)

OtherType(track_type) == IF track_type = "audio" THEN "subtitles" ELSE "audio"

CmdsOf(track_type) ==
    {i \in 1..Len(mkv_cmds) : mkv_cmds[i].letter = Letter(track_type)}

OutcomeFields ==
    {"successful", "estimated", "unchanged", "missing", "invalid", "failed"}

\* The returned tuple names this outcome and no other.
OnlyOutcome(field) ==
    /\ counts[field] >= 1
    /\ \A f \in OutcomeFields \ {field} : counts[f] = 0

(***************************************************************************)
(* C1.  As claimed: under strict policy, when for a requested type no      *)
(* track has the requested language -- subtitle code "off" excepted only   *)
(* when a default subtitle exists or the file has no subtitle tracks --    *)
(* the editor is not called and the file is classified missingTrack.       *)
(* Refuted: subtitle code "off" with subtitle tracks none of which is      *)
(* default is already satisfied, not missing.                              *)
(***************************************************************************)
C1_MissingAsClaimed(track_type) ==
    /\ Requested(track_type) # None
    /\ verify_language_code(Requested(track_type))
    /\ ~HasLanguage(tracks_info[track_type], Requested(track_type))
    /\ ~ /\ track_type = "subtitles"
         /\ Requested(track_type) = "off"
         /\ \/ DefaultTracks(tracks_info.subtitles) # {}
            \/ Len(tracks_info.subtitles) = 0

C1_Original ==
    (/\ pc = "returned"
     /\ IsMkv
     /\ default_method = "strict"
     /\ \E t \in TrackTypes : C1_MissingAsClaimed(t))
    => /\ editor.calls = 0
       /\ OnlyOutcome("missing")

(***************************************************************************)
(* C1, amended.  Under strict policy, when for a requested type with a     *)
(* code other than "off" no track has the requested language, a call that  *)
(* returns has made no editor call, has left the file as it was and        *)
(* reports a non-zero missingTrack counter with the other five counters 0, *)
(* also when commands were staged for the other type.                      *)
(***************************************************************************)
C1_LanguageMissing(track_type) ==
    /\ RequestsLanguage(track_type)
    /\ ~HasLanguage(tracks_info[track_type], Requested(track_type))

C1_StrictAllOrNothing ==
    (/\ pc = "returned"
     /\ IsMkv
     /\ default_method = "strict"
     /\ \E t \in TrackTypes : C1_LanguageMissing(t))
    => /\ editor.calls = 0
       /\ container = tracks_info
       /\ no_changes
       /\ OnlyOutcome("missing")

\* Audio was satisfiable and staged, the subtitle language is missing.
C1_Witness ==
    /\ pc = "returned"
    /\ IsMkv
    /\ default_method = "strict"
    /\ C1_LanguageMissing("subtitles")
    /\ RequestsLanguage("audio")
    /\ HasLanguage(tracks_info.audio, Requested("audio"))
    /\ CmdsOf("audio") # {}
    /\ counts.missing = 1
    /\ editor.calls = 0

(***************************************************************************)
(* C2.  Under lazy policy, when no track of a requested type has the       *)
(* requested language, the edit set holds no command on a track of that    *)
(* type.                                                                   *)
(***************************************************************************)
C2_LazyMissingTypeUntouched ==
    (/\ pc = "returned"
     /\ IsMkv
     /\ default_method = "lazy")
    => \A t \in TrackTypes :
          (/\ RequestsLanguage(t)
           /\ ~HasLanguage(tracks_info[t], Requested(t)))
          => CmdsOf(t) = {}

(***************************************************************************)
(* C3.  When for every requested type a track with the requested language  *)
(* bears the default flag, no command is staged, the editor is not called  *)
(* and the file is classified unchanged.  Stated for the containers with   *)
(* at most one default track per type.                                     *)
(***************************************************************************)
C3_DefaultHasLanguage(track_type) ==
    \E i \in DefaultTracks(tracks_info[track_type]) :
        tracks_info[track_type][i].language = Requested(track_type)

C3_AlreadyDefaultUnchanged ==
    (/\ pc = "returned"
     /\ IsMkv
     /\ AtMostOneDefault(tracks_info)
     /\ \E t \in TrackTypes : RequestsLanguage(t)
     /\ \A t \in TrackTypes :
           \/ Requested(t) = None
           \/ RequestsLanguage(t) /\ C3_DefaultHasLanguage(t))
    => /\ mkv_cmds = <<>>
       /\ editor.calls = 0
       /\ OnlyOutcome("unchanged")

(***************************************************************************)
(* C4.  In every returned tuple exactly one of the six outcome counters is *)
(* 1 and the other five are 0.                                             *)
(***************************************************************************)
C4_ExactlyOneOutcome ==
    pc = "returned"
    => \E f \in OutcomeFields :
          /\ counts[f] = 1
          /\ \A g \in OutcomeFields \ {f} : counts[g] = 0

(***************************************************************************)
(* C5.  As claimed: for every container, codes and policy, a second run    *)
(* over the file the first run has edited stages no command and classifies *)
(* the file unchanged.                                                     *)
(***************************************************************************)
C5_Original ==
    (run >= 2 /\ pc # "pending")
    => /\ pc = "returned"
       /\ mkv_cmds = <<>>
       /\ OnlyOutcome("unchanged")

(***************************************************************************)
(* C5, amended.  For every container with at most one default track per    *)
(* type, every pair of codes and either policy: when the first run was     *)
(* successful (its commands were applied to the file), a second run with   *)
(* the same codes and policy stages no command, calls no editor and        *)
(* classifies the file unchanged.                                          *)
(***************************************************************************)
C5_Idempotent ==
    (/\ run >= 2
     /\ pc # "pending"
     /\ prev.counts.successful = 1
     /\ AtMostOneDefault(prev.tracks_info))
    => /\ pc = "returned"
       /\ mkv_cmds = <<>>
       /\ editor.calls = 0
       /\ counts.unchanged = 1
       /\ OnlyOutcome("unchanged")

\* The second run has returned over a file whose flags the first run changed.
C5_Witness ==
    /\ run = 2
    /\ pc = "returned"
    /\ prev.counts.successful = 1
    /\ AtMostOneDefault(prev.tracks_info)
    /\ prev.tracks_info # tracks_info
    /\ RequestsLanguage("audio")
    /\ Requested("subtitles") # None
    /\ counts.unchanged = 1

(***************************************************************************)
(* C6.  Under lazy policy, when the requested language of one type is      *)
(* missing while the other type has a track with its requested language    *)
(* and no default track of that language, the command setting that track   *)
(* default is staged all the same; a dry run classifies the file           *)
(* estimatedSuccessful without calling the editor, otherwise the editor is *)
(* called with the edit set and, on exit status 0, the file is classified  *)
(* successful.                                                             *)
(***************************************************************************)
C6_Case(missing_type) ==
    LET other == OtherType(missing_type)
    IN /\ pc # "pending"
       /\ IsMkv
       /\ default_method = "lazy"
       /\ RequestsLanguage(missing_type)
       /\ ~HasLanguage(tracks_info[missing_type], Requested(missing_type))
       /\ RequestsLanguage(other)
       /\ HasLanguage(tracks_info[other], Requested(other))
       /\ ~C3_DefaultHasLanguage(other)

C6_SetStaged(track_type) ==
    \E i \in CmdsOf(track_type) : \E k \in 1..Len(tracks_info[track_type]) :
        /\ mkv_cmds[i].flag = 1
        /\ mkv_cmds[i].gid = tracks_info[track_type][k].id
        /\ tracks_info[track_type][k].language = Requested(track_type)

C6_LazyKeepsOtherEdit ==
    \A t \in TrackTypes :
        C6_Case(t) =>
            /\ C6_SetStaged(OtherType(t))
            /\ dry_run => /\ pc = "returned"
                          /\ editor.calls = 0
                          /\ OnlyOutcome("estimated")
            /\ ~dry_run => editor.calls = 1
            /\ (~dry_run /\ editor.returncode = 0)
                  => (pc = "returned" /\ OnlyOutcome("successful"))

\* Audio language missing, the subtitle default set by a successful edit.
C6_Witness ==
    /\ C6_Case("audio")
    /\ Len(tracks_info.audio) >= 1
    /\ pc = "returned"
    /\ counts.successful = 1
    /\ C6_SetStaged("subtitles")
    /\ editor.calls = 1
    /\ editor.returncode = 0

(***************************************************************************)
(* C7.  Under strict policy, for an input with at most one default track   *)
(* per type, whenever the outcome is successful the edited file has, for   *)
(* every requested type, a default track, and every default track of that  *)
(* type has the requested language; for subtitle code "off" no subtitle    *)
(* track is default.                                                       *)
(***************************************************************************)
C7_Satisfied(track_type) ==
    LET tracks == container[track_type]
    IN IF Requested(track_type) = "off"
       THEN DefaultTracks(tracks) = {}
       ELSE /\ DefaultTracks(tracks) # {}
            /\ \A i \in DefaultTracks(tracks) :
                  tracks[i].language = Requested(track_type)

C7_StrictSuccessSatisfiesAll ==
    (/\ pc = "returned"
     /\ default_method = "strict"
     /\ AtMostOneDefault(tracks_info)
     /\ counts.successful = 1)
    => \A t \in TrackTypes : Requested(t) # None => C7_Satisfied(t)

\* Both defaults moved to another track by one successful strict run.
C7_Witness ==
    /\ pc = "returned"
    /\ run = 1
    /\ default_method = "strict"
    /\ AtMostOneDefault(tracks_info)
    /\ counts.successful = 1
    /\ \A t \in TrackTypes :
          /\ RequestsLanguage(t)
          /\ DefaultTracks(tracks_info[t]) # {}
          /\ DefaultTracks(container[t]) # DefaultTracks(tracks_info[t])

(***************************************************************************)
(* C8.  Every staged subtitle command carries the number                   *)
(* id - (number of audio tracks) and every staged audio command the id     *)
(* itself, the id being that of a track of the command's type.             *)
(***************************************************************************)
C8_TypeOf(cmd) == IF cmd.letter = "a" THEN "audio" ELSE "subtitles"

C8_SelectorTranslation ==
    pc # "pending" =>
        \A i \in 1..Len(mkv_cmds) :
            LET cmd == mkv_cmds[i]
            IN /\ cmd.letter \in {"a", "s"}
               /\ \E k \in 1..Len(tracks_info[C8_TypeOf(cmd)]) :
                     tracks_info[C8_TypeOf(cmd)][k].id = cmd.gid
               /\ (cmd.letter = "s" => cmd.num = cmd.gid - Len(tracks_info.audio))
               /\ (cmd.letter = "a" => cmd.num = cmd.gid)

\* A subtitle default is cleared in the scan and another set after it, in a
\* container with audio tracks.
C8_Witness ==
    /\ pc = "returned"
    /\ Len(tracks_info.audio) >= 1
    /\ \E i, j \in CmdsOf("subtitles") :
          /\ i < j
          /\ mkv_cmds[i].flag = 0
          /\ mkv_cmds[j].flag = 1
          /\ mkv_cmds[i].num # mkv_cmds[i].gid
    /\ CmdsOf("audio") # {}

(***************************************************************************)
(* C9.  In a dry run the editor is never called and the file stays as it   *)
(* was, and every call that returns with commands staged and no abort      *)
(* classifies the file estimatedSuccessful (never successful or failed).   *)
(***************************************************************************)
C9_DryRunNeverEdits ==
    dry_run =>
        /\ editor.calls = 0
        /\ container = tracks_info
        /\ (pc = "returned" /\ mkv_cmds # <<>> /\ ~no_changes)
              => (OnlyOutcome("estimated") /\ counts.estimated = 1)

C9_Witness ==
    /\ dry_run
    /\ pc = "returned"
    /\ mkv_cmds # <<>>
    /\ ~no_changes
    /\ counts.estimated = 1
    /\ editor.calls = 0

(***************************************************************************)
(* C10.  When the editor has been called, a non-zero exit status makes the *)
(* call return outcome failed and exit status 0 makes it return            *)
(* successful.                                                             *)
(***************************************************************************)
C10_ExitStatusDecidesOutcome ==
    (pc # "pending" /\ editor.calls = 1)
    => /\ pc = "returned"
       /\ editor.returncode # 0 => (OnlyOutcome("failed") /\ counts.failed = 1)
       /\ editor.returncode = 0 => (OnlyOutcome("successful") /\ counts.successful = 1)

(***************************************************************************)
(* Vocabulary of the batch properties.                                     *)
(***************************************************************************)
\* main has ended: change_default_tracks returned or an exception left main.
MainEnded == phase = "done" \/ raised # ""

\* mkvmerge has been run on the i-th file of the batch.
InspectorInvoked(i) == info_tasks[i].st # "queued"

\* mkvmerge failed on the i-th file: non-zero exit status or output that
\* does not parse.
InspectorFailed(i) ==
    /\ info_tasks[i].st = "done"
    /\ info_tasks[i].out.returncode # 0 \/ ~info_tasks[i].out.json

\* mkvpropedit has been run on the i-th file of the batch.
EditorInvoked(i) ==
    /\ i \in DOMAIN tracks_tasks
    /\ tracks_tasks[i].res.editor.calls = 1

\* mkvpropedit failed on the i-th file.
EditorFailedOn(i) ==
    /\ EditorInvoked(i)
    /\ tracks_tasks[i].res.editor.returncode # 0

\* process_media_file_tracks has returned its tuple for the i-th file.
HasOutcome(i) ==
    /\ i \in DOMAIN tracks_tasks
    /\ tracks_tasks[i].st = "done"
    /\ tracks_tasks[i].res.pc = "returned"

\* A requested code is not in the registry.
UnregisteredRequest ==
    \E t \in TrackTypes :
        Requested(t) # None /\ ~verify_language_code(Requested(t))

(***************************************************************************)
(* C11.  When main has ended and mkvmerge or mkvpropedit has failed on a   *)
(* file, process_media_file_tracks has returned the tuple of every other   *)
(* file of the batch.                                                      *)
(***************************************************************************)
C11_SiblingsReachOutcome ==
    MainEnded =>
        \A i, j \in DOMAIN info_tasks :
            (i # j /\ (InspectorFailed(i) \/ EditorFailedOn(i)))
                => HasOutcome(j)

(***************************************************************************)
(* C12.  A call of process_media_file_info on which mkvmerge exits         *)
(* non-zero or gives output that does not parse raises and returns no      *)
(* track data; the parent never takes a result past it, so                 *)
(* get_media_files_info does not return: media_info is never built, no     *)
(* file is handed to process_media_file_tracks and no outcome is counted.  *)
(***************************************************************************)
C12_InspectorFailureIsFatal ==
    \A i \in DOMAIN info_tasks :
        InspectorFailed(i) =>
            /\ info_tasks[i].exc # ""
            /\ info_tasks[i].tracks_info = EmptyInfo
            /\ phase = "inspect"
            /\ consumed < i
            /\ media_info = <<>>
            /\ tracks_tasks = <<>>
            /\ totals = ZeroTotals
            /\ raised \in {"", "CalledProcessError", "JSONDecodeError", "Exception"}

\* On Windows the first file was inspected and mkvmerge exited non-zero on
\* the second: main has ended with Exception in the inspection pass.
C12_Witness ==
    /\ platform = "win32"
    /\ Len(info_tasks) = 2
    /\ info_tasks[1].st = "done"
    /\ info_tasks[1].exc = ""
    /\ consumed = 1
    /\ InspectorFailed(2)
    /\ info_tasks[2].out.returncode = 1
    /\ raised = "Exception"
    /\ phase = "inspect"

(***************************************************************************)
(* C13.  When a requested code is not in the registry, mkvmerge is run on  *)
(* no file and mkvpropedit is run on no file.                              *)
(***************************************************************************)
C13_VerifiedBeforeAnyFile ==
    UnregisteredRequest =>
        /\ \A i \in DOMAIN info_tasks : ~InspectorInvoked(i)
        /\ \A i \in DOMAIN tracks_tasks : ~EditorInvoked(i)

(***************************************************************************)
(* C14.  For a file whose lower-cased path does not end in ".mkv" every    *)
(* call returns -- also when a requested code is not registered -- with    *)
(* invalid counter 1 and the other five counters 0, no command staged, no  *)
(* abort flag, no editor call and the file as it was.                      *)
(***************************************************************************)
C14_NonMkvIsInvalid ==
    (pc \in {"returned", "raised"} /\ ~IsMkv)
    => /\ pc = "returned"
       /\ counts.invalid = 1
       /\ OnlyOutcome("invalid")
       /\ mkv_cmds = <<>>
       /\ ~no_changes
       /\ editor.calls = 0
       /\ container = tracks_info

\* A file that is not .mkv, an unregistered subtitle code and an audio
\* request the resolver would have staged a command for.
C14_Witness ==
    /\ pc = "returned"
    /\ ~IsMkv
    /\ ~verify_language_code(Requested("subtitles"))
    /\ RequestsLanguage("audio")
    /\ HasLanguage(tracks_info.audio, Requested("audio"))
    /\ ~C3_DefaultHasLanguage("audio")
    /\ counts.invalid = 1

(***************************************************************************)
(* C15.  A file whose tuple names outcome invalidFile has not been passed  *)
(* to mkvmerge.                                                            *)
(***************************************************************************)
C15_InvalidNeverInspected ==
    \A i \in DOMAIN tracks_tasks :
        (HasOutcome(i) /\ tracks_tasks[i].res.counts.invalid = 1)
            => ~InspectorInvoked(i)

(***************************************************************************)
(* C16.  Under strict policy, with subtitle code "off" and a subtitle      *)
(* track bearing the default flag: the edit set holds a command with       *)
(* flag-default=0 addressing a default subtitle track by its number among  *)
(* the subtitle tracks; the file is aborted only when the audio language   *)
(* is missing; unless aborted or a dry run the editor is called, and when  *)
(* it exits with status 0 the file is classified successful.               *)
(***************************************************************************)
C16_Case ==
    /\ pc \in {"returned", "raised"}
    /\ IsMkv
    /\ default_method = "strict"
    /\ Requested("subtitles") = "off"
    /\ DefaultTracks(tracks_info.subtitles) # {}

C16_ClearStaged ==
    \E i \in CmdsOf("subtitles") : \E k \in DefaultTracks(tracks_info.subtitles) :
        /\ mkv_cmds[i].flag = 0
        /\ mkv_cmds[i].gid = tracks_info.subtitles[k].id
        /\ mkv_cmds[i].num = tracks_info.subtitles[k].id - Len(tracks_info.audio)

C16_StrictOffClearsDefault ==
    C16_Case =>
        /\ C16_ClearStaged
        /\ no_changes => C1_LanguageMissing("audio")
        /\ counts.missing > 0 => C1_LanguageMissing("audio")
        /\ (~no_changes /\ ~dry_run) => editor.calls = 1
        /\ (editor.calls = 1 /\ editor.returncode = 0)
              => (pc = "returned" /\ OnlyOutcome("successful"))

\* The default subtitle track comes first and another follows it; the audio
\* default is moved in the same successful edit.
C16_Witness ==
    /\ C16_Case
    /\ Len(tracks_info.subtitles) = 2
    /\ tracks_info.subtitles[1].default
    /\ ~tracks_info.subtitles[2].default
    /\ Len(tracks_info.audio) >= 1
    /\ CmdsOf("audio") # {}
    /\ C16_ClearStaged
    /\ DefaultTracks(container.subtitles) = {}
    /\ counts.successful = 1

(***************************************************************************)
(* C17.  For a file without subtitle tracks and subtitle code "off", under *)
(* either policy: no subtitle command is staged, the file is aborted only  *)
(* when the audio language is missing, and when audio is not requested or  *)
(* a default audio track has the requested language the file is classified *)
(* unchanged.                                                              *)
(***************************************************************************)
C17_NoSubtitlesOffUnchanged ==
    (/\ pc \in {"returned", "raised"}
     /\ IsMkv
     /\ Len(tracks_info.subtitles) = 0
     /\ Requested("subtitles") = "off")
    => /\ CmdsOf("subtitles") = {}
       /\ no_changes => C1_LanguageMissing("audio")
       /\ (\/ Requested("audio") = None
           \/ RequestsLanguage("audio") /\ C3_DefaultHasLanguage("audio"))
             => (pc = "returned" /\ OnlyOutcome("unchanged"))

(***************************************************************************)
(* C18.  Under lazy policy every returned tuple has missingTrack counter   *)
(* 0, and the abort flag is never set.                                     *)
(***************************************************************************)
C18_LazyNeverMissing ==
    (default_method = "lazy" /\ pc \in {"returned", "raised"})
    => /\ counts.missing = 0
       /\ ~no_changes

\* Neither requested language is in the file, and the call has returned.
C18_Witness ==
    /\ default_method = "lazy"
    /\ pc = "returned"
    /\ IsMkv
    /\ C1_LanguageMissing("audio")
    /\ C1_LanguageMissing("subtitles")
    /\ Len(tracks_info.audio) >= 1
    /\ Len(tracks_info.subtitles) >= 1
    /\ counts.missing = 0

(***************************************************************************)
(* C19.  Every tuple process_media_file_tracks returns carries the         *)
(* lower-cased extension of its file with count 1, whatever the outcome;   *)
(* media_file_types holds, for every extension, the number of files with   *)
(* that lower-cased extension among the tuples added up so far, so its     *)
(* counts sum to that number of files and, when change_default_tracks has  *)
(* returned, to the number of files of the batch.                          *)
(***************************************************************************)
C19_Ext(i) == SplitExt(LowerPath(media_info[i][1]))

C19_Sum(types) ==
    LET F[S \in SUBSET DOMAIN types] ==
            IF S = {} THEN 0
            ELSE LET e == CHOOSE x \in S : TRUE
                 IN types[e] + F[S \ {e}]
    IN F[DOMAIN types]

C19_HistogramCountsEveryFile ==
    phase \in {"reconcile", "done"} =>
        /\ \A i \in DOMAIN tracks_tasks :
              HasOutcome(i) =>
                  /\ tracks_tasks[i].res.counts.ext = C19_Ext(i)
                  /\ tracks_tasks[i].res.counts.ext_count = 1
        /\ \A e \in DOMAIN totals.media_file_types \cup
                    {C19_Ext(i) : i \in 1..consumed} :
              /\ e \in DOMAIN totals.media_file_types
              /\ totals.media_file_types[e] =
                     Cardinality({i \in 1..consumed : C19_Ext(i) = e})
        /\ C19_Sum(totals.media_file_types) = consumed
        /\ phase = "done" =>
              C19_Sum(totals.media_file_types) = Len(media_info)

\* change_default_tracks has returned over an upper-case .MKV file classified
\* missingTrack and an .mp4 file classified invalid.
C19_Witness ==
    /\ phase = "done"
    /\ Len(media_info) = 2
    /\ \E i \in 1..2 : EndsWith(media_info[i][1], DotMKV)
    /\ totals.counts.missing = 1
    /\ totals.counts.invalid = 1
    /\ DOMAIN totals.media_file_types = {DotMkv, DotMp4}
    /\ totals.media_file_types[DotMkv] = 1
    /\ totals.media_file_types[DotMp4] = 1

(***************************************************************************)
(* C20.  In each pass the number of files in the workers' hands never      *)
(* exceeds pool_size; the two passes never work at the same time; with     *)
(* pool_size 1 at most one file, and so at most one mkvmerge or            *)
(* mkvpropedit process, is being worked on.                                *)
(***************************************************************************)
C20_PoolBound ==
    /\ Cardinality(Running(info_tasks)) <= pool_size
    /\ Cardinality(Running(tracks_tasks)) <= pool_size
    /\ Running(info_tasks) = {} \/ Running(tracks_tasks) = {}
    /\ pool_size = 1 =>
          Cardinality(Running(info_tasks)) + Cardinality(Running(tracks_tasks)) <= 1

\* Two workers hold the two files of the reconciliation pass.
C20_Witness ==
    /\ phase = "reconcile"
    /\ pool_size = 2
    /\ Cardinality(Running(tracks_tasks)) = 2
    /\ info_tasks[1].st = "done"
    /\ info_tasks[2].st = "done"

(***************************************************************************)
(* Vocabulary of the aggregation properties.                               *)
(***************************************************************************)
\* The tuples of the given files added up from zero in the given order.
TotalsIn(order) ==
    LET F[k \in 0..Len(order)] ==
            IF k = 0 THEN ZeroTotals
            ELSE AddCounts(F[k - 1], tracks_tasks[order[k]].res.counts)
    IN F[Len(order)]

\* Every order of the first n files.
OrdersOf(n) ==
    {o \in [1..n -> 1..n] : \A i, j \in 1..n : o[i] = o[j] => i = j}

(***************************************************************************)
(* C21.  Whatever the pool size and the order in which the workers have    *)
(* finished, the counters and media_file_types of change_default_tracks    *)
(* equal the tuples of the files taken so far added up in any order: every *)
(* order of adding them gives the same totals.                             *)
(***************************************************************************)
C21_OrderIndependentTotals ==
    phase \in {"reconcile", "done"} =>
        \A o \in OrdersOf(consumed) : TotalsIn(o) = totals

\* change_default_tracks has returned, with two workers, over two files with
\* different extensions and different outcomes.
C21_Witness ==
    /\ phase = "done"
    /\ pool_size = 2
    /\ consumed = 2
    /\ Cardinality(DOMAIN totals.media_file_types) = 2
    /\ totals.counts.successful = 1
    /\ totals.counts.invalid = 1

(***************************************************************************)
(* C22.  In both passes the parent takes the results in the order of       *)
(* submission: the results taken are those of the first files, each of     *)
(* them finished; a result a worker has finished early waits for the ones  *)
(* before it; media_info lists the files in the order of the paths and the *)
(* totals are those of the first files added up in that order.             *)
(***************************************************************************)
C22_InSubmissionOrder ==
    /\ phase = "inspect" =>
          /\ consumed <= Len(info_tasks)
          /\ \A i \in 1..consumed :
                info_tasks[i].st = "done" /\ info_tasks[i].exc = ""
    /\ phase \in {"reconcile", "done"} =>
          /\ consumed <= Len(tracks_tasks)
          /\ \A i \in 1..consumed : HasOutcome(i)
          /\ \A i \in DOMAIN media_info :
                /\ media_info[i][1] = media_file_paths[i]
                /\ media_info[i][2] = info_tasks[i].tracks_info
          /\ totals = TotalsIn([i \in 1..consumed |-> i])

\* A worker has finished the second file while the first is still being
\* worked on: nothing has been taken or added up.
C22_Witness ==
    /\ phase = "reconcile"
    /\ Len(tracks_tasks) = 2
    /\ tracks_tasks[1].st = "running"
    /\ HasOutcome(2)
    /\ consumed = 0
    /\ totals = ZeroTotals

(***************************************************************************)
(* C23.  As claimed: when several tracks of a requested type carry the     *)
(* requested language, the command that sets the default addresses the     *)
(* first of them (the lowest id), and the request counts as already        *)
(* satisfied exactly when that first track is the default: then no command *)
(* sets a default for the type.                                            *)
(***************************************************************************)
C23_Matches(track_type) ==
    {i \in 1..Len(tracks_info[track_type]) :
        tracks_info[track_type][i].language = Requested(track_type)}

C23_FirstMatch(track_type) ==
    CHOOSE i \in C23_Matches(track_type) :
        \A j \in C23_Matches(track_type) : i <= j

C23_SetCmds(track_type) ==
    {i \in CmdsOf(track_type) : mkv_cmds[i].flag = 1}

C23_FirstMatchIsTarget ==
    \A t \in TrackTypes :
        (/\ pc \in {"returned", "raised"}
         /\ IsMkv
         /\ RequestsLanguage(t)
         /\ Cardinality(C23_Matches(t)) >= 2)
        => /\ \A i \in C23_SetCmds(t) :
                 mkv_cmds[i].gid = tracks_info[t][C23_FirstMatch(t)].id
           /\ tracks_info[t][C23_FirstMatch(t)].default
                 => C23_SetCmds(t) = {}

(***************************************************************************)
(* C24.  In every edit set the audio commands precede the subtitle         *)
(* commands, and within a type every command that clears a default         *)
(* precedes the command that sets one.  For audio {0: eng default, 1: jpn} *)
(* and subtitles {2: eng, 3: jpn default}, audio code jpn, subtitle code   *)
(* eng, strict policy, the edit set is exactly                             *)
(*   track:a0 flag-default=0, track:a1 flag-default=1,                     *)
(*   track:s1 flag-default=0, track:s0 flag-default=1.                     *)
(***************************************************************************)
C24_Scenario ==
    /\ IsMkv
    /\ default_method = "strict"
    /\ audio_lang_code = "jpn"
    /\ subtitle_lang_code = "eng"
    /\ tracks_info = [audio |-> MkTracks(<<[language |-> "eng", default |-> TRUE],
                                           [language |-> "jpn", default |-> FALSE]>>, 0),
                      subtitles |-> MkTracks(<<[language |-> "eng", default |-> FALSE],
                                               [language |-> "jpn", default |-> TRUE]>>, 2)]

C24_ScenarioCmds ==
    << [letter |-> "a", num |-> 0, flag |-> 0, gid |-> 0],
       [letter |-> "a", num |-> 1, flag |-> 1, gid |-> 1],
       [letter |-> "s", num |-> 1, flag |-> 0, gid |-> 3],
       [letter |-> "s", num |-> 0, flag |-> 1, gid |-> 2] >>

C24_EditSetOrder ==
    pc \in {"returned", "raised"} =>
        /\ \A i \in CmdsOf("audio") : \A j \in CmdsOf("subtitles") : i < j
        /\ \A i, j \in 1..Len(mkv_cmds) :
              (/\ mkv_cmds[i].letter = mkv_cmds[j].letter
               /\ mkv_cmds[i].flag = 0
               /\ mkv_cmds[j].flag = 1) => i < j
        /\ C24_Scenario => mkv_cmds = C24_ScenarioCmds

\* The handler has returned over the file of the scenario.
C24_Witness ==
    /\ pc = "returned"
    /\ C24_Scenario
    /\ mkv_cmds = C24_ScenarioCmds
    /\ ~dry_run
    /\ counts.successful = 1

(***************************************************************************)
(* C25.  Per file: mkvpropedit is run at most once, only after mkvmerge    *)
(* has returned successfully for that file, only when the edit set is not  *)
(* empty, the file was not aborted and this is not a dry run; a file is    *)
(* handled once (queued, then running, then done, never back), and its     *)
(* result, once there, never changes.                                      *)
(***************************************************************************)
C25_EditorOnlyWhenStaged ==
    \A i \in DOMAIN tracks_tasks :
        /\ tracks_tasks[i].res.editor.calls <= 1
        /\ tracks_tasks[i].st # "done" => ~EditorInvoked(i)
        /\ EditorInvoked(i) =>
              /\ info_tasks[i].st = "done"
              /\ info_tasks[i].exc = ""
              /\ ~InspectorFailed(i)
              /\ tracks_tasks[i].res.mkv_cmds # <<>>
              /\ ~tracks_tasks[i].res.no_changes
              /\ ~dry_run

C25_HandledOnce ==
    \A i \in DOMAIN tracks_tasks :
        /\ tracks_tasks[i].st = "running" =>
              /\ i \in DOMAIN tracks_tasks'
              /\ tracks_tasks'[i].st \in {"running", "done"}
        /\ tracks_tasks[i].st = "done" =>
              /\ i \in DOMAIN tracks_tasks'
              /\ tracks_tasks'[i] = tracks_tasks[i]

C25_FileStateMachine ==
    /\ [] C25_EditorOnlyWhenStaged
    /\ [][C25_HandledOnce]_vars

\* Both files are done: mkvpropedit was run on the first and not on the
\* second, for which nothing was staged.
C25_Witness ==
    /\ phase = "done"
    /\ Len(tracks_tasks) = 2
    /\ EditorInvoked(1)
    /\ HasOutcome(1)
    /\ HasOutcome(2)
    /\ ~EditorInvoked(2)
    /\ tracks_tasks[2].res.mkv_cmds = <<>>
    /\ tracks_tasks[2].res.counts.unchanged = 1

(***************************************************************************)
(* C26.  Over a container in which more than one track of a type bears the *)
(* default flag, with every requested code registered and either policy,   *)
(* the resolution raises nothing: process_media_file_tracks returns a      *)
(* tuple that names one of the six outcomes, and the only call that ends   *)
(* otherwise is one in which mkvpropedit was run and its exit status       *)
(* raised.                                                                 *)
(***************************************************************************)
C26_SeveralDefaults ==
    \E t \in TrackTypes : Cardinality(DefaultTracks(tracks_info[t])) >= 2

C26_SeveralDefaultsNoRaise ==
    (/\ pc # "pending"
     /\ IsMkv
     /\ ~UnregisteredRequest
     /\ C26_SeveralDefaults)
    => /\ pc = "raised" =>
             /\ editor.calls = 1
             /\ EditorRaises(editor.platform, editor.returncode)
       /\ pc = "returned" => \E f \in OutcomeFields : OnlyOutcome(f)

\* The call has returned over a file with two default audio tracks and no
\* default subtitle, subtitles to be turned off.
C26_Witness ==
    /\ pc = "returned"
    /\ IsMkv
    /\ Cardinality(DefaultTracks(tracks_info.audio)) = 2
    /\ Len(tracks_info.subtitles) >= 1
    /\ DefaultTracks(tracks_info.subtitles) = {}
    /\ Requested("subtitles") = "off"
    /\ Requested("audio") = "jpn"
    /\ \E f \in OutcomeFields : OnlyOutcome(f)

(***************************************************************************)
(* C27.  When every type of the inspected file has at most one default     *)
(* track and the edit set has been applied (the file is successful), every *)
(* type of the file still has at most one default track.                   *)
(***************************************************************************)
C27_AtMostOneDefaultKept ==
    (/\ pc = "returned"
     /\ counts.successful = 1
     /\ AtMostOneDefault(tracks_info))
    => AtMostOneDefault(container)

(***************************************************************************)
(* C28.  When the subtitle code is "off" and exactly one subtitle track is *)
(* default, the edit set holds a command that clears that track, under     *)
(* either policy and wherever the track stands among the subtitles.        *)
(***************************************************************************)
C28_OffClearsTheDefault ==
    (/\ pc \in {"returned", "raised"}
     /\ IsMkv
     /\ Requested("subtitles") = "off"
     /\ ~UnregisteredRequest
     /\ Cardinality(DefaultTracks(tracks_info.subtitles)) = 1)
    => \E i \in CmdsOf("subtitles") :
          /\ mkv_cmds[i].flag = 0
          /\ \A k \in DefaultTracks(tracks_info.subtitles) :
                mkv_cmds[i].gid = tracks_info.subtitles[k].id

(***************************************************************************)
(* C29.  The two passes are separated: no file is handed to                *)
(* process_media_file_tracks and mkvpropedit is run on none before         *)
(* mkvmerge has returned successfully for every file of the batch; when    *)
(* mkvmerge has failed on a file, no file is reconciled and every file of  *)
(* the library is as it was.                                               *)
(***************************************************************************)
C29_Reconciling ==
    \E i \in DOMAIN tracks_tasks :
        tracks_tasks[i].st # "queued" \/ EditorInvoked(i)

C29_Untouched ==
    \A k \in DOMAIN library :
        \E f \in FileKinds :
            /\ library[k].container = f.container
            /\ EndsWith(library[k].path, f.ext)

C29_BarrierBetweenPasses ==
    /\ C29_Reconciling =>
          /\ Len(info_tasks) = Len(media_file_paths)
          /\ \A i \in DOMAIN info_tasks :
                /\ info_tasks[i].st = "done"
                /\ info_tasks[i].exc = ""
                /\ ~InspectorFailed(i)
    /\ (\E i \in DOMAIN info_tasks : InspectorFailed(i)) =>
          /\ ~C29_Reconciling
          /\ phase # "done"
          /\ C29_Untouched

\* A file is being reconciled, after both inspections have succeeded.
C29_Witness ==
    /\ phase = "reconcile"
    /\ Len(info_tasks) = 2
    /\ \A i \in DOMAIN info_tasks : info_tasks[i].st = "done" /\ ~InspectorFailed(i)
    /\ EditorInvoked(1)
    /\ tracks_tasks[2].st = "running"

(***************************************************************************)
(* C30.  When every mkvmerge and mkvpropedit call returns and the workers  *)
(* and the parent are scheduled fairly, a run ends: either an error is     *)
(* raised, or change_default_tracks returns with the tuple of every        *)
(* collected file returned and added up; no file stays queued, running or  *)
(* inspected forever.                                                      *)
(***************************************************************************)
C30_AllAggregated ==
    /\ phase = "done"
    /\ Len(tracks_tasks) = Len(CollectPaths(library, file_extensions))
    /\ consumed = Len(tracks_tasks)
    /\ \A i \in DOMAIN tracks_tasks : HasOutcome(i)
    /\ totals = TotalsIn([i \in 1..Len(tracks_tasks) |-> i])

C30_RunTerminates == <>(raised # "" \/ C30_AllAggregated)

\* A run over two files, on two workers, has ended with both added up.
C30_Witness ==
    /\ C30_AllAggregated
    /\ raised = ""
    /\ Len(tracks_tasks) = 2
    /\ pool_size = 2
    /\ totals.counts.successful + totals.counts.unchanged + totals.counts.invalid
       + totals.counts.estimated + totals.counts.failed + totals.counts.missing >= 2

====
